---- MODULE Spec2Model ----
(***************************************************************************)
(* Model of the Home component of src/app/page.tsx: the two workflows      *)
(* (test generation, project analysis), their React state, the requests    *)
(* they have outstanding and the handlers that move them.                  *)
(*                                                                         *)
(* Every handler runs to its first await in one step; React applies the    *)
(* state updates of one synchronous stretch of a handler together, so the  *)
(* stretch after the awaited response (lines 65-83, 167-185) is one step   *)
(* as well.                                                                *)
(*                                                                         *)
(* The two run controls are disabled while their workflow is loading       *)
(* (lines 316, 478), so a start that arrives while a request is            *)
(* outstanding never reaches the handler.  The handlers keep their own     *)
(* check of the input (lines 38, 143); the model leaves that check         *)
(* reachable: a start is taken with any input.                             *)
(***************************************************************************)
EXTENDS Integers, Sequences, FiniteSets, TLC

(* ------------------------------ bounds -------------------------------- *)

MaxCodeLen == 1       \* longest text typed into the editor
MaxNameLen == 1       \* longest text typed into the name field
NumPayloads == 2      \* distinct non-empty result strings the server returns
NumErrors == 1        \* distinct non-empty error strings the server returns

(* ------------------------------ strings ------------------------------- *)

\* Text the user types is a sequence of characters, so that trim() and
\* endsWith() are computed; messages and payloads are opaque strings.
Whitespace == {" "}
CodeChars == {" ", "f"}

Strs(n) == UNION {[1..k -> CodeChars] : k \in 0..n}

RECURSIVE TrimStart(_)
TrimStart(s) ==
    IF s = <<>> THEN s
    ELSE IF Head(s) \in Whitespace THEN TrimStart(Tail(s)) ELSE s

RECURSIVE TrimEnd(_)
TrimEnd(s) ==
    IF s = <<>> THEN s
    ELSE IF s[Len(s)] \in Whitespace THEN TrimEnd(SubSeq(s, 1, Len(s) - 1)) ELSE s

\* String.prototype.trim
Trim(s) == TrimEnd(TrimStart(s))

\* String.prototype.endsWith
EndsWith(s, suffix) ==
    /\ Len(s) >= Len(suffix)
    /\ SubSeq(s, Len(s) - Len(suffix) + 1, Len(s)) = suffix

ZipSuffix == <<".", "z", "i", "p">>

\* event.target.files?.[0] of the file input: no file (the picker was
\* dismissed) or a file, known to the handlers by its name.
NoFile == <<>>
FileNames ==
    { <<"a", ".", "z", "i", "p">>,
      <<".", "z", "i", "p">>,
      <<"a", ".", "p", "d", "f">>,
      <<"a", ".", "Z", "I", "P">>,
      <<"a", "z", "i", "p">>,
      <<"a", ".", "z", "i", "p", " ">> }

(* ------------------------------ messages ------------------------------ *)

EnterFunctionMsg == "Please enter a JavaScript function"
GenerateFallbackMsg == "Failed to generate tests"
SelectZipMsg == "Please select a ZIP file"
SelectZipFirstMsg == "Please select a ZIP file first"
AnalyzeFallbackMsg == "Failed to analyze project"
ConnectMsg == "Failed to connect to backend server. Make sure it's running on port 3001."

CopyTestsAlert == "Failed to copy tests to clipboard"
CopyAnalysisAlert == "Failed to copy analysis - please copy manually"

\* Names of the files handed to saveAs.
DefaultTestName == <<"t", "e", "s", "t", "F", "u", "n", "c", "t", "i", "o", "n">>
TestSuffix == <<".", "t", "e", "s", "t", ".", "j", "s">>
ReportFileName == "project-analysis-report.txt"

(* ------------------------- what the server sends ---------------------- *)

Payloads == {""} \cup {"T" \o ToString(i) : i \in 1..NumPayloads}
ServerErrors == {""} \cup {"E" \o ToString(i) : i \in 1..NumErrors}

\* Parsed bodies of POST /api/generate-tests: success, and tests and error
\* each present or absent (a field that is absent is not in the DOMAIN).
GenerateData ==
    [success : BOOLEAN] \cup
    [success : BOOLEAN, tests : Payloads] \cup
    [success : BOOLEAN, error : ServerErrors] \cup
    [success : BOOLEAN, tests : Payloads, error : ServerErrors]

\* Parsed bodies of POST /api/analyze-project.
AnalyzeData ==
    [success : BOOLEAN] \cup
    [success : BOOLEAN, analysis : Payloads] \cup
    [success : BOOLEAN, error : ServerErrors] \cup
    [success : BOOLEAN, analysis : Payloads, error : ServerErrors]

\* How an awaited request settles: fetch rejects, response.json() rejects,
\* the body parses to null, or the body parses to an object.
Failures == {"fetchRejected", "jsonRejected", "jsonNull"}

\* JavaScript truthiness of data.<field> for a string field: present and
\* not the empty string.
Truthy(data, field) == field \in DOMAIN data /\ data[field] # ""

\* data.<field> || fallback
OrElse(data, field, fallback) ==
    IF Truthy(data, field) THEN data[field] ELSE fallback

(* ------------------------------- state -------------------------------- *)

VARIABLES
    inputCode,        \* useState(''), line 20
    generatedTests,   \* useState(''), line 21
    isLoading,        \* useState(false), line 22
    error,            \* useState(''), line 23
    functionName,     \* useState(''), line 24
    selectedFile,     \* useState(null), line 27
    projectAnalysis,  \* useState(''), line 28
    isAnalyzing,      \* useState(false), line 29
    analysisError,    \* useState(''), line 30
    generateFetches,  \* bodies of the generate-tests requests outstanding
    analyzeFetches,   \* files of the analyze-project requests outstanding
    lastOp            \* the event dispatched last, with what it carried

vars == <<inputCode, generatedTests, isLoading, error, functionName,
          selectedFile, projectAnalysis, isAnalyzing, analysisError,
          generateFetches, analyzeFetches, lastOp>>

generateVars == <<inputCode, generatedTests, isLoading, error, functionName,
                  generateFetches>>
analysisVars == <<selectedFile, projectAnalysis, isAnalyzing, analysisError,
                  analyzeFetches>>

Init ==
    /\ inputCode = <<>>
    /\ generatedTests = ""
    /\ isLoading = FALSE
    /\ error = ""
    /\ functionName = <<>>
    /\ selectedFile = NoFile
    /\ projectAnalysis = ""
    /\ isAnalyzing = FALSE
    /\ analysisError = ""
    /\ generateFetches = <<>>
    /\ analyzeFetches = <<>>
    /\ lastOp = [op |-> "init"]

\* s without its i-th element
RemoveAt(s, i) == SubSeq(s, 1, i - 1) \o SubSeq(s, i + 1, Len(s))

(* --------------------------- test generation -------------------------- *)

\* onChange of the editor: setInputCode(value || '')
SetInputCode ==
    /\ \E value \in Strs(MaxCodeLen) : inputCode' = value
    /\ lastOp' = [op |-> "setInputCode"]
    /\ UNCHANGED <<generatedTests, isLoading, error, functionName,
                   generateFetches>>
    /\ UNCHANGED analysisVars

\* onChange of the name field: setFunctionName(e.target.value)
SetFunctionName ==
    /\ \E value \in Strs(MaxNameLen) : functionName' = value
    /\ lastOp' = [op |-> "setFunctionName"]
    /\ UNCHANGED <<inputCode, generatedTests, isLoading, error,
                   generateFetches>>
    /\ UNCHANGED analysisVars

\* A request body carrying the name field as typed.
GenerateBodyNoTrim ==
    IF functionName = <<>>
    THEN [functionCode |-> inputCode]
    ELSE [functionCode |-> inputCode, functionName |-> functionName]

\* JSON body of the request: functionName is left out when undefined.
GenerateBody ==
    IF Trim(functionName) = <<>>
    THEN [functionCode |-> inputCode]
    ELSE [functionCode |-> inputCode, functionName |-> Trim(functionName)]

\* handleGenerateTests testing the raw text instead of the trimmed text.
HandleGenerateTestsNoTrim ==
    /\ lastOp' = [op |-> "generateTests"]
    /\ IF inputCode = <<>>
       THEN /\ error' = EnterFunctionMsg
            /\ UNCHANGED <<inputCode, generatedTests, isLoading,
                           functionName, generateFetches>>
       ELSE /\ isLoading' = TRUE
            /\ error' = ""
            /\ generatedTests' = ""
            /\ generateFetches' = Append(generateFetches, GenerateBody)
            /\ UNCHANGED <<inputCode, functionName>>
    /\ UNCHANGED analysisVars

\* handleGenerateTests without setError('') at the start.
HandleGenerateTestsKeepsError ==
    /\ lastOp' = [op |-> "generateTests"]
    /\ IF Trim(inputCode) = <<>>
       THEN /\ error' = EnterFunctionMsg
            /\ UNCHANGED <<inputCode, generatedTests, isLoading,
                           functionName, generateFetches>>
       ELSE /\ isLoading' = TRUE
            /\ generatedTests' = ""
            /\ generateFetches' = Append(generateFetches, GenerateBody)
            /\ UNCHANGED <<inputCode, functionName, error>>
    /\ UNCHANGED analysisVars

\* handleGenerateTests without setGeneratedTests('') at the start.
HandleGenerateTestsKeepsResult ==
    /\ lastOp' = [op |-> "generateTests"]
    /\ IF Trim(inputCode) = <<>>
       THEN /\ error' = EnterFunctionMsg
            /\ UNCHANGED <<inputCode, generatedTests, isLoading,
                           functionName, generateFetches>>
       ELSE /\ isLoading' = TRUE
            /\ error' = ""
            /\ generateFetches' = Append(generateFetches, GenerateBody)
            /\ UNCHANGED <<inputCode, functionName, generatedTests>>
    /\ UNCHANGED analysisVars

\* handleGenerateTests dropping the stored tests when it rejects the input.
HandleGenerateTestsRejectClears ==
    /\ lastOp' = [op |-> "generateTests"]
    /\ IF Trim(inputCode) = <<>>
       THEN /\ error' = EnterFunctionMsg
            /\ generatedTests' = ""
            /\ UNCHANGED <<inputCode, isLoading, functionName,
                           generateFetches>>
       ELSE /\ isLoading' = TRUE
            /\ error' = ""
            /\ generatedTests' = ""
            /\ generateFetches' = Append(generateFetches, GenerateBody)
            /\ UNCHANGED <<inputCode, functionName>>
    /\ UNCHANGED analysisVars

\* handleGenerateTests up to the awaited fetch.
HandleGenerateTests ==
    /\ lastOp' = [op |-> "generateTests"]
    /\ IF Trim(inputCode) = <<>>
       THEN /\ error' = EnterFunctionMsg
            /\ UNCHANGED <<inputCode, generatedTests, isLoading,
                           functionName, generateFetches>>
       ELSE /\ isLoading' = TRUE
            /\ error' = ""
            /\ generatedTests' = ""
            /\ generateFetches' = Append(generateFetches, GenerateBody)
            /\ UNCHANGED <<inputCode, functionName>>
    /\ UNCHANGED analysisVars

\* A Generate Tests control that is never disabled.
GenerateNeverBlocked == FALSE

\* The Generate Tests control is disabled while isLoading.
GenerateBlocked == isLoading

\* A start on the test-generation workflow: the click reaches the handler
\* unless the control is disabled.
GenerateTests ==
    IF GenerateBlocked
    THEN /\ lastOp' = [op |-> "generateIgnored"]
         /\ UNCHANGED generateVars
         /\ UNCHANGED analysisVars
    ELSE HandleGenerateTests

\* handleGenerateTests after the awaited fetch, when the body parsed.
GenerateSettled(data) ==
    /\ IF data.success /\ Truthy(data, "tests")
       THEN /\ generatedTests' = data.tests
            /\ UNCHANGED error
       ELSE /\ error' = OrElse(data, "error", GenerateFallbackMsg)
            /\ UNCHANGED generatedTests
    /\ isLoading' = FALSE

\* A catch block that reports the workflow's fallback message.
GenerateFailedWithFallback ==
    /\ error' = GenerateFallbackMsg
    /\ isLoading' = FALSE
    /\ UNCHANGED generatedTests

\* A catch block with no finally: isLoading is left set.
GenerateFailedStaysLoading ==
    /\ error' = ConnectMsg
    /\ UNCHANGED <<isLoading, generatedTests>>

\* handleGenerateTests after the awaited fetch, in the catch block.
GenerateFailed ==
    /\ error' = ConnectMsg
    /\ isLoading' = FALSE
    /\ UNCHANGED generatedTests

\* A request that is issued again when it fails.
GenerateResponseRetries ==
    /\ \/ /\ \E i \in 1..Len(generateFetches) :
               generateFetches' = RemoveAt(generateFetches, i)
          /\ \E data \in GenerateData :
               /\ GenerateSettled(data)
               /\ lastOp' = [op |-> "generateResponse", data |-> data]
       \/ /\ generateFetches # <<>>
          /\ UNCHANGED generateFetches
          /\ \E failure \in Failures :
               /\ GenerateFailed
               /\ lastOp' = [op |-> "generateResponse", failure |-> failure]
    /\ UNCHANGED <<inputCode, functionName>>
    /\ UNCHANGED analysisVars

\* One outstanding generate-tests request settles.
GenerateResponse ==
    /\ \E i \in 1..Len(generateFetches) :
         generateFetches' = RemoveAt(generateFetches, i)
    /\ \/ \E data \in GenerateData :
            /\ GenerateSettled(data)
            /\ lastOp' = [op |-> "generateResponse", data |-> data]
       \/ \E failure \in Failures :
            /\ GenerateFailed
            /\ lastOp' = [op |-> "generateResponse", failure |-> failure]
    /\ UNCHANGED <<inputCode, functionName>>
    /\ UNCHANGED analysisVars

\* A file name built from the name field as typed.
TestFileNameNoTrim ==
    (IF functionName = <<>> THEN DefaultTestName ELSE functionName)
        \o TestSuffix

\* functionName.trim() || 'testFunction', then `${fileName}.test.js`
TestFileName ==
    (IF Trim(functionName) = <<>> THEN DefaultTestName ELSE Trim(functionName))
        \o TestSuffix

\* handleDownloadTests without the check of generatedTests.
HandleDownloadTestsNoGuard ==
    /\ lastOp' = [op |-> "downloadTests", name |-> TestFileName,
                  content |-> generatedTests]
    /\ UNCHANGED generateVars
    /\ UNCHANGED analysisVars

\* handleDownloadTests dropping the stored tests once they are saved.
HandleDownloadTestsConsumes ==
    /\ IF generatedTests = ""
       THEN lastOp' = [op |-> "downloadTests"]
       ELSE lastOp' = [op |-> "downloadTests", name |-> TestFileName,
                       content |-> generatedTests]
    /\ generatedTests' = ""
    /\ UNCHANGED <<inputCode, isLoading, error, functionName,
                   generateFetches>>
    /\ UNCHANGED analysisVars

\* handleDownloadTests: what it hands to saveAs is carried by the event.
HandleDownloadTests ==
    /\ IF generatedTests = ""
       THEN lastOp' = [op |-> "downloadTests"]
       ELSE lastOp' = [op |-> "downloadTests", name |-> TestFileName,
                       content |-> generatedTests]
    /\ UNCHANGED generateVars
    /\ UNCHANGED analysisVars

\* handleCopyToClipboard reporting a failed write through setError.
HandleCopyToClipboardSetsError ==
    /\ IF generatedTests = ""
       THEN /\ lastOp' = [op |-> "copyTests"]
            /\ UNCHANGED error
       ELSE \/ /\ lastOp' = [op |-> "copyTests", clipboard |-> generatedTests]
               /\ UNCHANGED error
            \/ /\ lastOp' = [op |-> "copyTests", alert |-> CopyTestsAlert]
               /\ error' = CopyTestsAlert
    /\ UNCHANGED <<inputCode, generatedTests, isLoading, functionName,
                   generateFetches>>
    /\ UNCHANGED analysisVars

\* handleCopyToClipboard: writeText is called with the tests stored at the
\* call and resolves or rejects; nothing of the component's state is
\* touched after the await, so the call and its outcome are one step.
HandleCopyToClipboard ==
    /\ IF generatedTests = ""
       THEN lastOp' = [op |-> "copyTests"]
       ELSE \/ lastOp' = [op |-> "copyTests", clipboard |-> generatedTests]
            \/ lastOp' = [op |-> "copyTests", alert |-> CopyTestsAlert]
    /\ UNCHANGED generateVars
    /\ UNCHANGED analysisVars

(* ---------------------------- project analysis ------------------------ *)

\* handleFileSelect that also resets the report when a file is accepted.
HandleFileSelectResetsReport ==
    /\ \E file \in FileNames \cup {NoFile} :
         /\ lastOp' = [op |-> "fileSelect", file |-> file]
         /\ IF file # NoFile
            THEN IF EndsWith(file, ZipSuffix)
                 THEN /\ selectedFile' = file
                      /\ analysisError' = ""
                      /\ projectAnalysis' = ""
                 ELSE /\ analysisError' = SelectZipMsg
                      /\ selectedFile' = NoFile
                      /\ UNCHANGED projectAnalysis
            ELSE UNCHANGED <<selectedFile, analysisError, projectAnalysis>>
    /\ UNCHANGED <<isAnalyzing, analyzeFetches>>
    /\ UNCHANGED generateVars

\* handleFileSelect without setSelectedFile(null) on a rejected file.
HandleFileSelectKeepsFile ==
    /\ \E file \in FileNames \cup {NoFile} :
         /\ lastOp' = [op |-> "fileSelect", file |-> file]
         /\ IF file # NoFile
            THEN IF EndsWith(file, ZipSuffix)
                 THEN /\ selectedFile' = file
                      /\ analysisError' = ""
                 ELSE /\ analysisError' = SelectZipMsg
                      /\ UNCHANGED selectedFile
            ELSE UNCHANGED <<selectedFile, analysisError>>
    /\ UNCHANGED <<projectAnalysis, isAnalyzing, analyzeFetches>>
    /\ UNCHANGED generateVars

\* handleFileSelect without the check of the file name.
HandleFileSelectAcceptsAll ==
    /\ \E file \in FileNames \cup {NoFile} :
         /\ lastOp' = [op |-> "fileSelect", file |-> file]
         /\ IF file # NoFile
            THEN /\ selectedFile' = file
                 /\ analysisError' = ""
            ELSE UNCHANGED <<selectedFile, analysisError>>
    /\ UNCHANGED <<projectAnalysis, isAnalyzing, analyzeFetches>>
    /\ UNCHANGED generateVars

\* handleFileSelect dropping the selection when the event carries no file.
HandleFileSelectClearsOnCancel ==
    /\ \E file \in FileNames \cup {NoFile} :
         /\ lastOp' = [op |-> "fileSelect", file |-> file]
         /\ IF file # NoFile
            THEN IF EndsWith(file, ZipSuffix)
                 THEN /\ selectedFile' = file
                      /\ analysisError' = ""
                 ELSE /\ analysisError' = SelectZipMsg
                      /\ selectedFile' = NoFile
            ELSE /\ selectedFile' = NoFile
                 /\ UNCHANGED analysisError
    /\ UNCHANGED <<projectAnalysis, isAnalyzing, analyzeFetches>>
    /\ UNCHANGED generateVars

\* handleFileSelect
HandleFileSelect ==
    /\ \E file \in FileNames \cup {NoFile} :
         /\ lastOp' = [op |-> "fileSelect", file |-> file]
         /\ IF file # NoFile
            THEN IF EndsWith(file, ZipSuffix)
                 THEN /\ selectedFile' = file
                      /\ analysisError' = ""
                 ELSE /\ analysisError' = SelectZipMsg
                      /\ selectedFile' = NoFile
            ELSE UNCHANGED <<selectedFile, analysisError>>
    /\ UNCHANGED <<projectAnalysis, isAnalyzing, analyzeFetches>>
    /\ UNCHANGED generateVars

\* handleAnalyzeProject without setProjectAnalysis('') at the start.
HandleAnalyzeProjectKeepsReport ==
    /\ lastOp' = [op |-> "analyzeProject"]
    /\ IF selectedFile = NoFile
       THEN /\ analysisError' = SelectZipFirstMsg
            /\ UNCHANGED <<selectedFile, projectAnalysis, isAnalyzing,
                           analyzeFetches>>
       ELSE /\ isAnalyzing' = TRUE
            /\ analysisError' = ""
            /\ analyzeFetches' = Append(analyzeFetches, selectedFile)
            /\ UNCHANGED <<selectedFile, projectAnalysis>>
    /\ UNCHANGED generateVars

\* handleAnalyzeProject without the check of selectedFile.
HandleAnalyzeProjectNoCheck ==
    /\ lastOp' = [op |-> "analyzeProject"]
    /\ isAnalyzing' = TRUE
    /\ analysisError' = ""
    /\ projectAnalysis' = ""
    /\ analyzeFetches' = Append(analyzeFetches, selectedFile)
    /\ UNCHANGED selectedFile
    /\ UNCHANGED generateVars

\* handleAnalyzeProject clearing the error of the other workflow as well.
HandleAnalyzeProjectClearsError ==
    /\ lastOp' = [op |-> "analyzeProject"]
    /\ IF selectedFile = NoFile
       THEN /\ analysisError' = SelectZipFirstMsg
            /\ UNCHANGED <<selectedFile, projectAnalysis, isAnalyzing,
                           analyzeFetches, error>>
       ELSE /\ isAnalyzing' = TRUE
            /\ analysisError' = ""
            /\ error' = ""
            /\ projectAnalysis' = ""
            /\ analyzeFetches' = Append(analyzeFetches, selectedFile)
            /\ UNCHANGED selectedFile
    /\ UNCHANGED <<inputCode, generatedTests, isLoading, functionName,
                   generateFetches>>

\* handleAnalyzeProject up to the awaited fetch.
HandleAnalyzeProject ==
    /\ lastOp' = [op |-> "analyzeProject"]
    /\ IF selectedFile = NoFile
       THEN /\ analysisError' = SelectZipFirstMsg
            /\ UNCHANGED <<selectedFile, projectAnalysis, isAnalyzing,
                           analyzeFetches>>
       ELSE /\ isAnalyzing' = TRUE
            /\ analysisError' = ""
            /\ projectAnalysis' = ""
            /\ analyzeFetches' = Append(analyzeFetches, selectedFile)
            /\ UNCHANGED selectedFile
    /\ UNCHANGED generateVars

\* An Analyze Project control that is never disabled.
AnalyzeNeverBlocked == FALSE

\* The Analyze Project control is disabled while isAnalyzing.
AnalyzeBlocked == isAnalyzing

\* A start on the project-analysis workflow: the click reaches the handler
\* unless the control is disabled.
AnalyzeProject ==
    IF AnalyzeBlocked
    THEN /\ lastOp' = [op |-> "analyzeIgnored"]
         /\ UNCHANGED analysisVars
         /\ UNCHANGED generateVars
    ELSE HandleAnalyzeProject

\* handleAnalyzeProject after the awaited fetch, when the body parsed.
AnalyzeSettled(data) ==
    /\ IF data.success /\ Truthy(data, "analysis")
       THEN /\ projectAnalysis' = data.analysis
            /\ UNCHANGED analysisError
       ELSE /\ analysisError' = OrElse(data, "error", AnalyzeFallbackMsg)
            /\ UNCHANGED projectAnalysis
    /\ isAnalyzing' = FALSE

\* handleAnalyzeProject after the awaited fetch, in the catch block.
AnalyzeFailed ==
    /\ analysisError' = ConnectMsg
    /\ isAnalyzing' = FALSE
    /\ UNCHANGED projectAnalysis

\* A settled analysis that gives up the file it was sent.
AnalyzeResponseConsumesFile ==
    /\ \E i \in 1..Len(analyzeFetches) :
         analyzeFetches' = RemoveAt(analyzeFetches, i)
    /\ \/ \E data \in AnalyzeData :
            /\ AnalyzeSettled(data)
            /\ lastOp' = [op |-> "analyzeResponse", data |-> data]
       \/ \E failure \in Failures :
            /\ AnalyzeFailed
            /\ lastOp' = [op |-> "analyzeResponse", failure |-> failure]
    /\ selectedFile' = NoFile
    /\ UNCHANGED generateVars

\* One outstanding analyze-project request settles.
AnalyzeResponse ==
    /\ \E i \in 1..Len(analyzeFetches) :
         analyzeFetches' = RemoveAt(analyzeFetches, i)
    /\ \/ \E data \in AnalyzeData :
            /\ AnalyzeSettled(data)
            /\ lastOp' = [op |-> "analyzeResponse", data |-> data]
       \/ \E failure \in Failures :
            /\ AnalyzeFailed
            /\ lastOp' = [op |-> "analyzeResponse", failure |-> failure]
    /\ UNCHANGED selectedFile
    /\ UNCHANGED generateVars

\* handleDownloadReport
HandleDownloadReport ==
    /\ IF projectAnalysis = ""
       THEN lastOp' = [op |-> "downloadReport"]
       ELSE lastOp' = [op |-> "downloadReport", name |-> ReportFileName,
                       content |-> projectAnalysis]
    /\ UNCHANGED analysisVars
    /\ UNCHANGED generateVars

\* handleCopyAnalysisToClipboard
HandleCopyAnalysisToClipboard ==
    /\ IF projectAnalysis = ""
       THEN lastOp' = [op |-> "copyAnalysis"]
       ELSE \/ lastOp' = [op |-> "copyAnalysis", clipboard |-> projectAnalysis]
            \/ lastOp' = [op |-> "copyAnalysis", alert |-> CopyAnalysisAlert]
    /\ UNCHANGED analysisVars
    /\ UNCHANGED generateVars

(* --------------------------- specification ---------------------------- *)

Next ==
    \/ SetInputCode
    \/ SetFunctionName
    \/ GenerateTests
    \/ GenerateResponse
    \/ HandleDownloadTests
    \/ HandleCopyToClipboard
    \/ HandleFileSelect
    \/ AnalyzeProject
    \/ AnalyzeResponse
    \/ HandleDownloadReport
    \/ HandleCopyAnalysisToClipboard

Spec == Init /\ [][Next]_vars

(* ------------------------------ claims -------------------------------- *)

\* The event dispatched last was a response of the named kind whose body
\* parsed to an object.
GotData(op) == lastOp.op = op /\ "data" \in DOMAIN lastOp

\* The event dispatched last was a response of the named kind that ended in
\* the catch block.
GotFailure(op) == lastOp.op = op /\ "failure" \in DOMAIN lastOp

\* C1 as stated: while a workflow is InFlight, its stored result and its
\* stored error message are both empty.
C1_NothingStoredWhileInFlight ==
    /\ isLoading => generatedTests = "" /\ error = ""
    /\ isAnalyzing => projectAnalysis = "" /\ analysisError = ""

\* C1 amended: while a workflow is InFlight its stored result is empty and
\* the error the start cleared stays empty, except that a file selection
\* rejected while the analysis is pending stores its validation message.
C1_NoStaleResultWhileInFlight ==
    /\ isLoading => generatedTests = "" /\ error = ""
    /\ isAnalyzing => projectAnalysis = "" /\ analysisError \in {"", SelectZipMsg}

\* A non-.zip file was selected while the analysis was pending.
C1_Witness ==
    /\ isAnalyzing
    /\ lastOp.op = "fileSelect"
    /\ analysisError = SelectZipMsg
    /\ projectAnalysis = ""

\* C2: a start that arrives while its workflow is InFlight changes nothing
\* of that workflow and issues no request; at most one request per workflow
\* is outstanding.
C2_StartWhileInFlightIgnored ==
    [][ /\ (isLoading /\ lastOp'.op \in {"generateTests", "generateIgnored"})
              => UNCHANGED generateVars
        /\ (isAnalyzing /\ lastOp'.op \in {"analyzeProject", "analyzeIgnored"})
              => UNCHANGED analysisVars
        /\ Len(generateFetches') <= 1
        /\ Len(analyzeFetches') <= 1 ]_vars

\* A start arrived while the request of its workflow was outstanding.
C2_Witness ==
    /\ lastOp.op = "generateIgnored"
    /\ isLoading
    /\ Len(generateFetches) = 1

\* C3: generateTests with source code that is empty after trimming stores
\* "Please enter a JavaScript function", issues no request and does not
\* enter InFlight.
C3_BlankCodeRejected ==
    [][ (lastOp'.op = "generateTests" /\ Trim(inputCode) = <<>>)
          => /\ error' = EnterFunctionMsg
             /\ generateFetches' = generateFetches
             /\ isLoading' = FALSE ]_vars

\* generateTests was rejected for source code made of whitespace only.
C3_Witness ==
    /\ lastOp.op = "generateTests"
    /\ inputCode # <<>>
    /\ Trim(inputCode) = <<>>
    /\ error = EnterFunctionMsg
    /\ generateFetches = <<>>

\* C4 as stated: a generate-tests response with success = true and a tests
\* field X, the empty string included, leaves exactly Succeeded(X).
C4_SuccessStoresTests ==
    (GotData("generateResponse") /\ lastOp.data.success
        /\ "tests" \in DOMAIN lastOp.data)
      => /\ generatedTests = lastOp.data.tests
         /\ error = ""
         /\ ~isLoading

\* C5 as stated: a response that is not a success leaves Failed with the
\* server's error string verbatim, and with the workflow's fallback exactly
\* when the error field is absent.
C5_FailureStoresServerError ==
    /\ (GotData("generateResponse")
          /\ (~lastOp.data.success \/ "tests" \notin DOMAIN lastOp.data))
         => /\ error = (IF "error" \in DOMAIN lastOp.data
                        THEN lastOp.data.error ELSE GenerateFallbackMsg)
            /\ generatedTests = ""
            /\ ~isLoading
    /\ (GotData("analyzeResponse")
          /\ (~lastOp.data.success \/ "analysis" \notin DOMAIN lastOp.data))
         => /\ analysisError = (IF "error" \in DOMAIN lastOp.data
                                THEN lastOp.data.error ELSE AnalyzeFallbackMsg)
            /\ projectAnalysis = ""
            /\ ~isAnalyzing

\* C6: a request that ends in a transport failure or an unparsable body
\* leaves its workflow Failed with the one connection message, on either
\* endpoint, and with no result stored.
C6_TransportFailure ==
    /\ GotFailure("generateResponse")
         => error = ConnectMsg /\ generatedTests = "" /\ ~isLoading
    /\ GotFailure("analyzeResponse")
         => analysisError = ConnectMsg /\ projectAnalysis = "" /\ ~isAnalyzing

\* The body of an analyze-project response could not be parsed.
C6_Witness ==
    /\ GotFailure("analyzeResponse")
    /\ lastOp.failure = "jsonRejected"
    /\ analysisError = ConnectMsg

C8_FileSelectLeavesAnalysisState ==
    [][ lastOp'.op = "fileSelect"
          => UNCHANGED <<projectAnalysis, analysisError, isAnalyzing>> ]_vars

\* C8 amended: a file selection leaves the analysis result, the in-flight
\* flag and the outstanding request as they were; of the analysis state it
\* changes only the error message, cleared when the file is accepted and
\* set to "Please select a ZIP file" when it is rejected.
C8_FileSelectChangesOnlyError ==
    [][ lastOp'.op = "fileSelect"
          => /\ UNCHANGED <<projectAnalysis, isAnalyzing, analyzeFetches>>
             /\ analysisError' =
                  (IF lastOp'.file = NoFile THEN analysisError
                   ELSE IF EndsWith(lastOp'.file, ZipSuffix) THEN ""
                   ELSE SelectZipMsg) ]_vars

\* A .zip file was accepted while a report was stored.
C8_Witness ==
    /\ lastOp.op = "fileSelect"
    /\ lastOp.file # NoFile
    /\ selectedFile = lastOp.file
    /\ projectAnalysis # ""
    /\ analysisError = ""

\* C9: selecting a file whose name does not end in ".zip" stores "Please
\* select a ZIP file" and leaves no file accepted, whatever was accepted
\* before; a start of the analysis that follows issues no request.
C9_NonZipRejected ==
    [][ /\ (lastOp'.op = "fileSelect" /\ lastOp'.file # NoFile
              /\ ~EndsWith(lastOp'.file, ZipSuffix))
             => analysisError' = SelectZipMsg /\ selectedFile' = NoFile
        /\ (lastOp.op = "fileSelect" /\ lastOp.file # NoFile
              /\ ~EndsWith(lastOp.file, ZipSuffix)
              /\ lastOp'.op \in {"analyzeProject", "analyzeIgnored"})
             => analyzeFetches' = analyzeFetches ]_vars

\* A non-.zip file was selected after a .zip file had been accepted and
\* sent for analysis.
C9_Witness ==
    /\ lastOp.op = "fileSelect"
    /\ lastOp.file = <<"a", ".", "p", "d", "f">>
    /\ analyzeFetches # <<>>
    /\ selectedFile = NoFile
    /\ analysisError = SelectZipMsg

\* C10: with no file accepted, analyzeProject issues no request and does
\* not enter InFlight, and the handler stores "Please select a ZIP file
\* first".
C10_NoFileRejected ==
    [][ (selectedFile = NoFile
           /\ lastOp'.op \in {"analyzeProject", "analyzeIgnored"})
          => /\ analyzeFetches' = analyzeFetches
             /\ isAnalyzing' = isAnalyzing
             /\ lastOp'.op = "analyzeProject"
                  => analysisError' = SelectZipFirstMsg /\ ~isAnalyzing' ]_vars

\* analyzeProject was rejected with no file accepted.
C10_Witness ==
    /\ lastOp.op = "analyzeProject"
    /\ selectedFile = NoFile
    /\ analysisError = SelectZipFirstMsg
    /\ ~isAnalyzing
    /\ analyzeFetches = <<>>

\* C11 as stated: with a .zip file accepted, an analyze-project response
\* with success = true and an analysis field A, for any string A, leaves
\* exactly Succeeded(A).
C11_ZipAnalysisSucceeds ==
    (GotData("analyzeResponse") /\ lastOp.data.success
        /\ "analysis" \in DOMAIN lastOp.data
        /\ selectedFile # NoFile)
      => /\ projectAnalysis = lastOp.data.analysis
         /\ analysisError = ""
         /\ ~isAnalyzing

\* C12: a request goes out exactly when a start passes validation, one
\* request per such start, and a response takes exactly one request away:
\* nothing is issued without a start and nothing is issued again after a
\* failure, so the requests issued equal the starts accepted.
C12_OneRequestPerAcceptedStart ==
    [][ /\ Len(generateFetches') > Len(generateFetches)
             => lastOp'.op = "generateTests"
        /\ lastOp'.op = "generateTests"
             => Len(generateFetches') = Len(generateFetches)
                  + (IF Trim(inputCode) = <<>> THEN 0 ELSE 1)
        /\ lastOp'.op = "generateResponse"
             => Len(generateFetches') = Len(generateFetches) - 1
        /\ Len(analyzeFetches') > Len(analyzeFetches)
             => lastOp'.op = "analyzeProject"
        /\ lastOp'.op = "analyzeProject"
             => Len(analyzeFetches') = Len(analyzeFetches)
                  + (IF selectedFile = NoFile THEN 0 ELSE 1)
        /\ lastOp'.op = "analyzeResponse"
             => Len(analyzeFetches') = Len(analyzeFetches) - 1 ]_vars

\* A generate-tests request failed and no request is outstanding after it.
C12_Witness ==
    /\ GotFailure("generateResponse")
    /\ error = ConnectMsg
    /\ generateFetches = <<>>
    /\ Trim(inputCode) # <<>>

\* C13: every generate-tests request carries source code that is not empty
\* after trimming, every analyze-project request carries a file named
\* *.zip, and the accepted selection is absent or a file named *.zip.
C13_ValidatedRequests ==
    /\ \A i \in 1..Len(generateFetches) :
         Trim(generateFetches[i].functionCode) # <<>>
    /\ \A i \in 1..Len(analyzeFetches) :
         /\ analyzeFetches[i] # NoFile
         /\ EndsWith(analyzeFetches[i], ZipSuffix)
    /\ selectedFile = NoFile \/ EndsWith(selectedFile, ZipSuffix)

\* Both requests are outstanding while the editor holds blank text and the
\* selection has been rejected.
C13_Witness ==
    /\ generateFetches # <<>>
    /\ analyzeFetches # <<>>
    /\ Trim(inputCode) = <<>>
    /\ selectedFile = NoFile

\* C14: while a workflow is InFlight its one request is outstanding; the
\* step that settles the request, with a response or a failure, leaves the
\* workflow Succeeded or Failed with the flag cleared; and no other step
\* clears the flag (no cancel, no timeout).
C14_SettlingLeavesInFlight ==
    [][ /\ isLoading' => Len(generateFetches') = 1
        /\ (isLoading /\ ~isLoading') => lastOp'.op = "generateResponse"
        /\ lastOp'.op = "generateResponse"
             => ~isLoading' /\ (generatedTests' # "" \/ error' # "")
        /\ isAnalyzing' => Len(analyzeFetches') = 1
        /\ (isAnalyzing /\ ~isAnalyzing') => lastOp'.op = "analyzeResponse"
        /\ lastOp'.op = "analyzeResponse"
             => ~isAnalyzing' /\ (projectAnalysis' # "" \/ analysisError' # "")
      ]_vars

\* An analysis whose request was unreachable has left InFlight.
C14_Witness ==
    /\ GotFailure("analyzeResponse")
    /\ lastOp.failure = "fetchRejected"
    /\ ~isAnalyzing
    /\ analysisError # ""

\* C15: the file saved for the tests holds the stored tests and is named
\* after the trimmed function name, or testFunction when that is empty,
\* followed by .test.js; the file saved for the analysis holds the stored
\* report and is named project-analysis-report.txt.
C15_ExportedFile ==
    /\ (lastOp.op = "downloadTests" /\ "content" \in DOMAIN lastOp)
         => /\ lastOp.content = generatedTests
            /\ lastOp.name =
                 (IF Trim(functionName) = <<>>
                  THEN DefaultTestName \o TestSuffix
                  ELSE Trim(functionName) \o TestSuffix)
    /\ (lastOp.op = "downloadReport" /\ "content" \in DOMAIN lastOp)
         => /\ lastOp.content = projectAnalysis
            /\ lastOp.name = ReportFileName

\* Tests were saved while the name field held whitespace only.
C15_Witness ==
    /\ lastOp.op = "downloadTests"
    /\ "content" \in DOMAIN lastOp
    /\ functionName # <<>>
    /\ Trim(functionName) = <<>>
    /\ lastOp.name = DefaultTestName \o TestSuffix
    /\ lastOp.content # ""

\* The export events of the two workflows.
TestsExports == {"downloadTests", "copyTests"}
AnalysisExports == {"downloadReport", "copyAnalysis"}

\* What an export event put out: the content of the file saved or the text
\* written to the clipboard.
Emitted(event) ==
    IF "content" \in DOMAIN event THEN {event.content}
    ELSE IF "clipboard" \in DOMAIN event THEN {event.clipboard}
    ELSE {}

C17_ExportWithoutResult ==
    [][ /\ (generatedTests = "" /\ lastOp'.op \in TestsExports)
             => /\ DOMAIN lastOp' = {"op"}
                /\ UNCHANGED <<generateVars, analysisVars>>
        /\ (projectAnalysis = "" /\ lastOp'.op \in AnalysisExports)
             => /\ DOMAIN lastOp' = {"op"}
                /\ UNCHANGED <<generateVars, analysisVars>> ]_vars

\* A copy of the tests was asked for after a failed attempt.
C17_Witness ==
    /\ lastOp.op = "copyTests"
    /\ DOMAIN lastOp = {"op"}
    /\ generatedTests = ""
    /\ error = ConnectMsg

\* C18: a clipboard write, whether it succeeds or fails, leaves result,
\* error and in-flight flag of both workflows as they were; a failure
\* raises the alert and nothing else.
C18_ClipboardLeavesState ==
    [][ lastOp'.op \in {"copyTests", "copyAnalysis"}
          => /\ UNCHANGED <<generateVars, analysisVars>>
             /\ "alert" \in DOMAIN lastOp'
                  => /\ "clipboard" \notin DOMAIN lastOp'
                     /\ lastOp'.alert =
                          (IF lastOp'.op = "copyTests"
                           THEN CopyTestsAlert ELSE CopyAnalysisAlert) ]_vars

\* A write of the stored tests to the clipboard failed.
C18_Witness ==
    /\ lastOp.op = "copyTests"
    /\ "alert" \in DOMAIN lastOp
    /\ generatedTests # ""
    /\ error = ""
    /\ ~isLoading

\* The events of the two workflows.
GenerateOps ==
    {"setInputCode", "setFunctionName", "generateTests", "generateIgnored",
     "generateResponse"} \cup TestsExports
AnalysisOps ==
    {"fileSelect", "analyzeProject", "analyzeIgnored", "analyzeResponse"}
        \cup AnalysisExports

\* C19: every event of the test-generation workflow leaves the state of the
\* analysis (result, error, flag, accepted file, request) as it was, and
\* every event of the analysis leaves the state of test generation as it
\* was; both workflows can be InFlight together.
C19_WorkflowsIndependent ==
    [][ /\ lastOp'.op \in GenerateOps => UNCHANGED analysisVars
        /\ lastOp'.op \in AnalysisOps => UNCHANGED generateVars ]_vars

\* Both workflows are InFlight at the same time.
C19_Witness ==
    /\ isLoading
    /\ isAnalyzing
    /\ Len(generateFetches) = 1
    /\ Len(analyzeFetches) = 1
    /\ lastOp.op = "analyzeProject"

\* C20: from a Failed state of any kind, a start with valid input reaches
\* the handler, clears the stored error, enters InFlight and issues one
\* request.
C20_FailureRecoverable ==
    [][ /\ (~isLoading /\ error # "" /\ Trim(inputCode) # <<>>
              /\ lastOp'.op \in {"generateTests", "generateIgnored"})
             => /\ lastOp'.op = "generateTests"
                /\ error' = ""
                /\ isLoading'
                /\ Len(generateFetches') = Len(generateFetches) + 1
        /\ (~isAnalyzing /\ analysisError # "" /\ selectedFile # NoFile
              /\ lastOp'.op \in {"analyzeProject", "analyzeIgnored"})
             => /\ lastOp'.op = "analyzeProject"
                /\ analysisError' = ""
                /\ isAnalyzing'
                /\ Len(analyzeFetches') = Len(analyzeFetches) + 1 ]_vars

\* Test generation is Failed with valid input in the editor, and a start
\* that recovers it can be taken.
C20_Witness ==
    /\ ~isLoading
    /\ error \in {EnterFunctionMsg, ConnectMsg, "E1"}
    /\ Trim(inputCode) # <<>>
    /\ ENABLED (GenerateTests /\ isLoading' /\ error' = "")

\* C21: the request of an accepted start carries the editor's text and the
\* trimmed function name; when the name is empty after trimming the
\* request carries no function name, and the start is accepted all the same.
C21_RequestFunctionName ==
    (lastOp.op = "generateTests" /\ Trim(inputCode) # <<>>)
      => /\ isLoading
         /\ Len(generateFetches) = 1
         /\ generateFetches[1].functionCode = inputCode
         /\ IF Trim(functionName) = <<>>
            THEN DOMAIN generateFetches[1] = {"functionCode"}
            ELSE /\ DOMAIN generateFetches[1] = {"functionCode", "functionName"}
                 /\ generateFetches[1].functionName = Trim(functionName)

\* A start was accepted while the name field held whitespace only.
C21_Witness ==
    /\ lastOp.op = "generateTests"
    /\ isLoading
    /\ functionName # <<>>
    /\ Trim(functionName) = <<>>
    /\ DOMAIN generateFetches[1] = {"functionCode"}

\* C22: an export invoked again right after itself, on an unchanged state,
\* saves the same file under the same name (writes the same text) and
\* leaves the state and the stored result as they were.
C22_ExportsIdempotent ==
    [][ (lastOp.op = lastOp'.op /\ lastOp'.op \in TestsExports \cup AnalysisExports)
          => /\ UNCHANGED <<generateVars, analysisVars>>
             /\ lastOp'.op \in {"downloadTests", "downloadReport"}
                  => lastOp' = lastOp
             /\ \A first \in Emitted(lastOp) :
                  \A second \in Emitted(lastOp') : second = first ]_vars

\* Tests were saved, and saving them again gives the same file.
C22_Witness ==
    /\ lastOp.op = "downloadTests"
    /\ "content" \in DOMAIN lastOp
    /\ lastOp.content = generatedTests
    /\ ENABLED (HandleDownloadTests /\ lastOp' = lastOp)

\* C23: a workflow's in-flight flag is set exactly while one request of it
\* is outstanding; with the flag clear no request is outstanding, so no
\* response can arrive for a workflow that shows as not InFlight.
C23_FlagIffRequestOutstanding ==
    /\ Len(generateFetches) = (IF isLoading THEN 1 ELSE 0)
    /\ Len(analyzeFetches) = (IF isAnalyzing THEN 1 ELSE 0)
    /\ lastOp.op = "generateResponse" => ~ENABLED GenerateResponse
    /\ lastOp.op = "analyzeResponse" => ~ENABLED AnalyzeResponse

\* A start of the analysis arrived while its request was outstanding.
C23_Witness ==
    /\ lastOp.op = "analyzeIgnored"
    /\ isAnalyzing
    /\ Len(analyzeFetches) = 1
    /\ ~isLoading
    /\ generatedTests # ""

\* C24: a generateTests rejected by validation changes only the stored
\* error message; the tests generated before stay stored, and a download
\* after the rejection saves them.
C24_RejectionKeepsResult ==
    [][ /\ (lastOp'.op = "generateTests" /\ Trim(inputCode) = <<>>)
             => /\ error' = EnterFunctionMsg
                /\ UNCHANGED <<inputCode, generatedTests, isLoading,
                               functionName, generateFetches>>
                /\ UNCHANGED analysisVars
        /\ (lastOp'.op = "downloadTests" /\ generatedTests # "")
             => /\ "content" \in DOMAIN lastOp'
                /\ lastOp'.content = generatedTests ]_vars

\* The tests generated earlier were saved after a rejected generateTests.
C24_Witness ==
    /\ lastOp.op = "downloadTests"
    /\ "content" \in DOMAIN lastOp
    /\ error = EnterFunctionMsg
    /\ Trim(inputCode) = <<>>

\* C25: the accepted file changes only by a selection event that carries a
\* file; a start, a pending analysis and its settling leave it as it was.
C25_AnalyzeKeepsSelection ==
    [][ selectedFile' # selectedFile
          => lastOp'.op = "fileSelect" /\ lastOp'.file # NoFile ]_vars

\* An analysis has settled with its file still accepted, and the file can be
\* analyzed again at once.
C25_Witness ==
    /\ lastOp.op = "analyzeResponse"
    /\ selectedFile # NoFile
    /\ ENABLED (AnalyzeProject /\ isAnalyzing'
                  /\ analyzeFetches' = <<selectedFile>>)

\* C26: a selection event that carries no file leaves the accepted file,
\* the analysis error, the report and the in-flight flag as they were.
C26_EmptySelectionChangesNothing ==
    [][ (lastOp'.op = "fileSelect" /\ lastOp'.file = NoFile)
          => UNCHANGED <<analysisVars, generateVars>> ]_vars

\* The picker was dismissed while a file was accepted and an error of the
\* analysis was stored.
C26_Witness ==
    /\ lastOp.op = "fileSelect"
    /\ lastOp.file = NoFile
    /\ selectedFile # NoFile
    /\ analysisError # ""
    /\ projectAnalysis = ""

====
